---- MODULE Spec2Model ----
(***************************************************************************)
(* Model of PolicySimulator (src/main.py): the three datasets loaded by    *)
(* the constructor and simulate_access, the scan of the ordered policy     *)
(* list that decides grant or deny for one user id.                        *)
(*                                                                         *)
(* JSON objects are functions whose domain is the set of keys present, so  *)
(* dict.get(key, default) is Get(d, key, default) and an empty dict is the *)
(* function with empty domain.  JSON lists are sequences.  A time string   *)
(* is the sequence of its characters, parsed the way                       *)
(* datetime.strptime(s, "%H:%M") parses it.  A time of day is the number   *)
(* of seconds since midnight (datetime.now().time() has sub-minute         *)
(* resolution; strptime(...).time() has seconds = 0).                      *)
(***************************************************************************)
EXTENDS Integers, Sequences, FiniteSets, TLC

VARIABLES policy_file, user_file, context_file,
          policies, users, context,
          pc, user_id, current_time, idx, access_granted,
          result, log, examined

vars == <<policy_file, user_file, context_file, policies, users, context,
          pc, user_id, current_time, idx, access_granted, result, log, examined>>

data == <<policy_file, user_file, context_file, policies, users, context>>

-----------------------------------------------------------------------------
(* Python values *)

EmptyDict == <<>>

None == "None"

Get(d, k, default) == IF k \in DOMAIN d THEN d[k] ELSE default

\* bool(x) of a dict or a list: non-empty
Truthy(x) == DOMAIN x # {}

\* bool(x) of a str: non-empty
TruthyStr(x) == x # ""

InList(x, l) == \E i \in DOMAIN l : l[i] = x

-----------------------------------------------------------------------------
(* Times of day and strptime(s, "%H:%M").time() *)

TimeOfDay(h, m, s) == (h * 60 + m) * 60 + s

ValueError == 0 - 1

Digits == {"0", "1", "2", "3", "4", "5", "6", "7", "8", "9"}

DigitVal(c) == CHOOSE n \in 0..9 : <<"0", "1", "2", "3", "4", "5", "6", "7", "8", "9">>[n + 1] = c

\* one or two decimal digits (%H and %M accept both)
IsNumber(s) == Len(s) \in {1, 2} /\ \A i \in DOMAIN s : s[i] \in Digits

NumVal(s) == IF Len(s) = 1 THEN DigitVal(s[1]) ELSE 10 * DigitVal(s[1]) + DigitVal(s[2])

HourPart(s, k) == SubSeq(s, 1, k - 1)

MinutePart(s, k) == SubSeq(s, k + 1, Len(s))

WellFormedAt(s, k) ==
    /\ s[k] = ":"
    /\ IsNumber(HourPart(s, k))
    /\ IsNumber(MinutePart(s, k))
    /\ NumVal(HourPart(s, k)) <= 23
    /\ NumVal(MinutePart(s, k)) <= 59

StrptimeSilentDefault(s) ==
    IF \E k \in DOMAIN s : WellFormedAt(s, k)
    THEN LET k == CHOOSE j \in DOMAIN s : WellFormedAt(s, j)
         IN  TimeOfDay(NumVal(HourPart(s, k)), NumVal(MinutePart(s, k)), 0)
    ELSE TimeOfDay(0, 0, 0)

\* the parsed time of day, or ValueError when the string does not match %H:%M
Strptime(s) ==
    IF \E k \in DOMAIN s : WellFormedAt(s, k)
    THEN LET k == CHOOSE j \in DOMAIN s : WellFormedAt(s, j)
         IN  TimeOfDay(NumVal(HourPart(s, k)), NumVal(MinutePart(s, k)), 0)
    ELSE ValueError

DefaultStart == <<"0", "0", ":", "0", "0">>

DefaultEnd == <<"2", "3", ":", "5", "9">>

-----------------------------------------------------------------------------
(* _load_data: the parsed JSON document, or {} on any failure *)

LoadData(file) == IF file.readable THEN file.json ELSE EmptyDict

-----------------------------------------------------------------------------
(* simulate_access: the pieces of the loop body *)

DataLoaded(p, u, c) == Truthy(p) /\ Truthy(u) /\ Truthy(c)

UserFoundAlways(u, uid) == TRUE

UserFound(u, uid) == \E i \in DOMAIN Get(u, "users", <<>>) : Get(u, "users", <<>>)[i]["id"] = uid

ContextData(c) == Get(c, "context", EmptyDict)

PolicyList(p) == Get(p, "policies", <<>>)

PolicyEnabledAlways(policy) == TRUE

PolicyEnabled(policy) == Get(policy, "status", None) = "enabled"

PolicyAppliesFirstOnly(policy, uid) ==
    Truthy(Get(policy, "users", <<>>)) /\ Get(policy, "users", <<>>)[1] = uid

PolicyApplies(policy, uid) == InList(uid, Get(policy, "users", <<>>))

Conditions(policy) == Get(policy, "conditions", EmptyDict)

TimeRestrictions(policy) == Get(Conditions(policy), "time", EmptyDict)

StartTime(policy) == Strptime(Get(TimeRestrictions(policy), "start_time", DefaultStart))

EndTime(policy) == Strptime(Get(TimeRestrictions(policy), "end_time", DefaultEnd))

\* strptime raises ValueError on line 109 or 110
TimeRaises(policy) ==
    /\ Truthy(TimeRestrictions(policy))
    /\ ValueError \in {StartTime(policy), EndTime(policy)}

TimeConditionMet(policy, now) ==
    IF Truthy(TimeRestrictions(policy))
    THEN StartTime(policy) <= now /\ now <= EndTime(policy)
    ELSE TRUE

LocationConditionMetLenient(policy, ctx) ==
    IF Truthy(Get(Conditions(policy), "location", <<>>))
    THEN \/ Get(ContextData(ctx), "location", None) = None
         \/ InList(Get(ContextData(ctx), "location", None), Get(Conditions(policy), "location", <<>>))
    ELSE TRUE

LocationConditionMet(policy, ctx) ==
    IF Truthy(Get(Conditions(policy), "location", <<>>))
    THEN InList(Get(ContextData(ctx), "location", None), Get(Conditions(policy), "location", <<>>))
    ELSE TRUE

DeviceHealthMet(policy, ctx) ==
    IF TruthyStr(Get(Conditions(policy), "device_health", ""))
    THEN Get(ContextData(ctx), "device_health", None) = Get(Conditions(policy), "device_health", "")
    ELSE TRUE

ConditionsMet(policy, ctx, now) ==
    /\ TimeConditionMet(policy, now)
    /\ LocationConditionMet(policy, ctx)
    /\ DeviceHealthMet(policy, ctx)

GrantsAccess(policy) == Get(Get(policy, "grant_controls", EmptyDict), "access", None) = "grant"

\* what the loop does after a policy whose conditions were evaluated:
\* "break" on a grant, otherwise on to the next policy
ScanControlNoBreak(matched, grants) == "continue"

ScanControlStopAtMatch(matched, grants) == IF matched THEN "break" ELSE "continue"

ScanControl(matched, grants) == IF matched /\ grants THEN "break" ELSE "continue"

\* access_granted at the start of a call (a local, set on line 94)
AccessStale == access_granted

AccessDefault == FALSE

LogEntry(event, policy) == [event |-> event, policy |-> policy]

-----------------------------------------------------------------------------
(* Inputs: the documents the three files may hold *)

MaxPolicies == 3

T0800 == <<"0", "8", ":", "0", "0">>

T1800 == <<"1", "8", ":", "0", "0">>

T8h == <<"8", ":", "0", "0">>

TBadHour == <<"2", "5", ":", "0", "0">>

TBadMinute == <<"1", "8", ":", "6", "0">>

TNoon == <<"n", "o", "o", "n">>

Grant == [access |-> "grant"]

Block == [access |-> "block"]

\* policies of the kinds the README example and the loop's branches distinguish
PAllow == [name |-> "PAllow", status |-> "enabled", users |-> <<"u1", "u2">>,
           grant_controls |-> Grant]

PBlock == [name |-> "PBlock", status |-> "enabled", users |-> <<"u1">>,
           conditions |-> EmptyDict, grant_controls |-> Block]

POff == [name |-> "POff", status |-> "disabled", users |-> <<"u1", "u2">>,
         grant_controls |-> Grant]

PGuest == [name |-> "PGuest", status |-> "enabled", users |-> <<"u2">>,
           conditions |-> [location |-> <<"Canada">>], grant_controls |-> Grant]

PUsa == [name |-> "PUsa", status |-> "enabled", users |-> <<"u1">>,
         conditions |-> [time |-> [start_time |-> T0800, end_time |-> T1800],
                         location |-> <<"USA">>, device_health |-> "compliant"],
         grant_controls |-> Grant]

PBadTime == [name |-> "PBadTime", status |-> "enabled", users |-> <<"u1">>,
             conditions |-> [time |-> [start_time |-> TBadHour]],
             grant_controls |-> Grant]

PAudit == [name |-> "PAudit", status |-> "enabled", users |-> <<"u1">>,
           conditions |-> [location |-> <<"USA">>]]

PolicyPool == {PAllow, PBlock, POff, PGuest, PUsa, PBadTime, PAudit}

SeqsUpTo(S, n) == UNION {[1..k -> S] : k \in 0..n}

Readable(docs) == {[readable |-> TRUE, json |-> d] : d \in docs}

Unreadable == [readable |-> FALSE, json |-> EmptyDict]

PolicyFiles ==
    {Unreadable} \cup Readable({EmptyDict} \cup {[policies |-> l] : l \in SeqsUpTo(PolicyPool, MaxPolicies)})

UserFiles ==
    {Unreadable} \cup Readable({[users |-> <<>>],
                                [users |-> <<[id |-> "u1", name |-> "John Doe"]>>],
                                [users |-> <<[id |-> "u1", name |-> "John Doe"],
                                             [id |-> "u2", name |-> "Jane Smith"]>>]})

ContextFiles ==
    {Unreadable} \cup Readable({[context |-> EmptyDict],
                                [context |-> [location |-> "USA", device_health |-> "compliant"]],
                                [context |-> [location |-> "Canada"]]})

UserIds == {"u1", "u2"}

\* values datetime.now().time() may return
Instants == {TimeOfDay(12, 0, 0), TimeOfDay(18, 0, 30)}

-----------------------------------------------------------------------------
(* State machine *)

\* __init__: the three files are read once
Construct(pf, uf, cf) ==
    /\ policy_file = pf
    /\ user_file = uf
    /\ context_file = cf
    /\ policies = LoadData(pf)
    /\ users = LoadData(uf)
    /\ context = LoadData(cf)
    /\ pc = "ready"
    /\ user_id = None
    /\ current_time = 0
    /\ idx = 0
    /\ access_granted = FALSE
    /\ result = None
    /\ log = <<>>
    /\ examined = {}

Init == \E pf \in PolicyFiles, uf \in UserFiles, cf \in ContextFiles : Construct(pf, uf, cf)

\* lines 77-94: the checks before the loop
SimulateAccess(uid, now) ==
    /\ pc \in {"ready", "returned"}
    /\ user_id' = uid
    /\ current_time' = now
    /\ examined' = {}
    /\ idx' = 1
    /\ IF ~DataLoaded(policies, users, context)
       THEN /\ pc' = "returned"
            /\ result' = "False"
            /\ log' = <<LogEntry("data_not_loaded", None)>>
            /\ UNCHANGED access_granted
       ELSE IF ~UserFound(users, uid)
       THEN /\ pc' = "returned"
            /\ result' = "False"
            /\ log' = <<LogEntry("user_not_found", None)>>
            /\ UNCHANGED access_granted
       ELSE /\ pc' = "scan"
            /\ result' = None
            /\ log' = <<>>
            /\ access_granted' = AccessDefault
    /\ UNCHANGED data

\* lines 96-140: one iteration of the loop, on policy number idx
ScanPolicy ==
    /\ pc = "scan"
    /\ idx <= Len(PolicyList(policies))
    /\ LET policy == PolicyList(policies)[idx]
           name == Get(policy, "name", None)
       IN  /\ examined' = examined \cup {idx}
           /\ IF ~PolicyEnabled(policy)
              THEN /\ idx' = idx + 1
                   /\ UNCHANGED <<pc, access_granted, result, log>>
              ELSE IF ~PolicyApplies(policy, user_id)
              THEN /\ idx' = idx + 1
                   /\ UNCHANGED <<pc, access_granted, result, log>>
              ELSE IF TimeRaises(policy)
              THEN /\ pc' = "returned"
                   /\ result' = "ValueError"
                   /\ UNCHANGED <<idx, access_granted, log>>
              ELSE LET matched == ConditionsMet(policy, context, current_time)
                       grants == GrantsAccess(policy)
                   IN  /\ access_granted' = IF matched /\ grants THEN TRUE ELSE access_granted
                       /\ log' = IF matched
                                 THEN Append(log, LogEntry(IF grants THEN "granted" ELSE "applied_no_grant", name))
                                 ELSE log
                       /\ IF ScanControl(matched, grants) = "break"
                          THEN pc' = "exit" /\ idx' = idx
                          ELSE pc' = "scan" /\ idx' = idx + 1
                       /\ UNCHANGED result
    /\ UNCHANGED <<data, user_id, current_time>>

\* lines 142-144: after the loop
Return ==
    /\ IF pc = "scan" THEN idx > Len(PolicyList(policies)) ELSE pc = "exit"
    /\ pc' = "returned"
    /\ result' = IF access_granted THEN "True" ELSE "False"
    /\ log' = IF access_granted THEN log ELSE Append(log, LogEntry("denied", None))
    /\ UNCHANGED <<data, user_id, current_time, idx, access_granted, examined>>

Next ==
    \/ \E uid \in UserIds, now \in Instants : SimulateAccess(uid, now)
    \/ ScanPolicy
    \/ Return

Spec == Init /\ [][Next]_vars

-----------------------------------------------------------------------------
(* Inputs for the condition checks: one policy, every combination of its   *)
(* time, location and device_health conditions, against every context      *)

TimeFragments ==
    {EmptyDict} \cup
    {[time |-> t] : t \in {EmptyDict,
                           [start_time |-> T0800, end_time |-> T1800],
                           [start_time |-> T8h, end_time |-> T1800],
                           [start_time |-> T0800],
                           [end_time |-> T1800],
                           [start_time |-> T0800, end_time |-> TBadMinute],
                           [start_time |-> TNoon, end_time |-> T1800]}}

LocationFragments ==
    {EmptyDict} \cup {[location |-> l] : l \in {<<>>, <<"USA">>, <<"Canada", "USA">>}}

DeviceFragments ==
    {EmptyDict} \cup {[device_health |-> d] : d \in {"", "compliant"}}

ConditionDicts == {t @@ l @@ d : t \in TimeFragments, l \in LocationFragments, d \in DeviceFragments}

CondPolicies ==
    {[name |-> "P1", status |-> s, users |-> <<"u1">>, conditions |-> c, grant_controls |-> g] :
        s \in {"enabled", "disabled"}, c \in ConditionDicts, g \in {Grant, Block}}

CondPolicyFiles == Readable({[policies |-> <<p>>] : p \in CondPolicies})

CondUserFiles == Readable({[users |-> <<[id |-> "u1", name |-> "John Doe"]>>]})

CondContextFiles ==
    {Unreadable} \cup
    Readable({[context |-> l @@ d] :
                 l \in {EmptyDict} \cup {[location |-> x] : x \in {"USA", "Canada", "usa"}},
                 d \in {EmptyDict} \cup {[device_health |-> x] : x \in {"compliant", "Compliant"}}})

CondInstants == {TimeOfDay(7, 59, 59), TimeOfDay(8, 0, 0), TimeOfDay(12, 0, 0),
                 TimeOfDay(18, 0, 0), TimeOfDay(18, 0, 30), TimeOfDay(18, 1, 0),
                 TimeOfDay(23, 59, 0), TimeOfDay(23, 59, 30)}

InitCond == \E pf \in CondPolicyFiles, uf \in CondUserFiles, cf \in CondContextFiles : Construct(pf, uf, cf)

NextCond ==
    \/ \E uid \in UserIds, now \in CondInstants : SimulateAccess(uid, now)
    \/ ScanPolicy
    \/ Return

SpecCond == InitCond /\ [][NextCond]_vars

-----------------------------------------------------------------------------
(* Vocabulary of the properties, stated on the loaded documents *)

Returned == pc = "returned"

DatasetsPresent == policies # EmptyDict /\ users # EmptyDict /\ context # EmptyDict

Listed == IF "policies" \in DOMAIN policies THEN policies["policies"] ELSE <<>>

InDirectory(uid) ==
    /\ "users" \in DOMAIN users
    /\ uid \in {users["users"][i]["id"] : i \in DOMAIN users["users"]}

IsEnabled(p) == "status" \in DOMAIN p /\ p["status"] = "enabled"

ListsUser(p, uid) == "users" \in DOMAIN p /\ uid \in {p["users"][i] : i \in DOMAIN p["users"]}

Targets(i) == IsEnabled(Listed[i]) /\ ListsUser(Listed[i], user_id)

Malformed(s) == ~(\E k \in DOMAIN s : WellFormedAt(s, k))

\* the policy has a time condition one of whose given bounds is no HH:MM string
MalformedTime(p) ==
    /\ "conditions" \in DOMAIN p
    /\ "time" \in DOMAIN p["conditions"]
    /\ \E k \in DOMAIN p["conditions"]["time"] :
          k \in {"start_time", "end_time"} /\ Malformed(p["conditions"]["time"][k])

\* policy i targets the user and its conditions are evaluated without error and hold
Matches(i) ==
    /\ Targets(i)
    /\ ~MalformedTime(Listed[i])
    /\ ConditionsMet(Listed[i], context, current_time)

Qualifies(i) == Matches(i) /\ GrantsAccess(Listed[i])

MatchedNoGrant(i) == Matches(i) /\ ~GrantsAccess(Listed[i])

Authorizing == {log[k]["policy"] : k \in {j \in DOMAIN log : log[j]["event"] = "granted"}}

\* a call that got past the checks on the datasets and the user directory
Scanned == Returned /\ DatasetsPresent /\ InDirectory(user_id)

-----------------------------------------------------------------------------
(* C1 *)

NoPolicyTargets == \A i \in DOMAIN Listed : ~Targets(i)

\* C1: with the datasets loaded and the user in the directory, if every
\* policy is disabled or does not list the user, the call returns deny and
\* no policy is logged as granting, whatever the conditions and context are.
C1_NoTargetingPolicyDenies ==
    (Scanned /\ NoPolicyTargets) => (result = "False" /\ Authorizing = {})

\* a disabled policy that lists the user, has no condition and grants, and the call denied
C1_Witness ==
    /\ Scanned /\ NoPolicyTargets
    /\ \E i \in DOMAIN Listed :
          /\ ~IsEnabled(Listed[i])
          /\ ListsUser(Listed[i], user_id)
          /\ GrantsAccess(Listed[i])
          /\ ConditionsMet(Listed[i], context, current_time)
    /\ result = "False"

-----------------------------------------------------------------------------
(* C2 *)

FirstQualifying == CHOOSE i \in DOMAIN Listed : Qualifies(i) /\ \A j \in 1..(i - 1) : ~Qualifies(j)

FirstGrantWins ==
    /\ result = "True"
    /\ idx = FirstQualifying
    /\ examined = 1..FirstQualifying
    /\ Authorizing = {Listed[FirstQualifying]["name"]}
    /\ Cardinality({j \in DOMAIN log : log[j]["event"] = "granted"}) = 1

\* C2 as stated: whenever some policy targets the user, matches and grants,
\* the call grants, names the first such policy and examines nothing after it.
C2_Original ==
    (Scanned /\ \E i \in DOMAIN Listed : Qualifies(i)) => FirstGrantWins

NoErrorBefore(i) == \A j \in 1..(i - 1) : ~(Targets(j) /\ MalformedTime(Listed[j]))

\* C2 amended: the same, provided no enabled policy listing the user that
\* stands before the first qualifying one has a malformed time string.
C2_FirstGrantWins ==
    (Scanned /\ (\E i \in DOMAIN Listed : Qualifies(i)) /\ NoErrorBefore(FirstQualifying))
        => FirstGrantWins

\* two qualifying policies and a policy after the first one that was never examined
C2_Witness ==
    /\ Scanned
    /\ \E i, j \in DOMAIN Listed : i < j /\ Qualifies(i) /\ Qualifies(j)
    /\ \E k \in DOMAIN Listed : k > idx /\ MatchedNoGrant(k)
    /\ result = "True"
    /\ idx < Len(Listed)

-----------------------------------------------------------------------------
(* C3 *)

\* C3 as stated: a policy that qualifies after matched-but-non-granting
\* policies still yields grant.
C3_Original ==
    Scanned =>
        \A j \in DOMAIN Listed :
            (Qualifies(j) /\ \E i \in 1..(j - 1) : MatchedNoGrant(i)) => result = "True"

\* C3 amended: the same, provided no enabled policy listing the user before
\* the qualifying one has a malformed time string.
C3_NonGrantingDoesNotHalt ==
    Scanned =>
        \A j \in DOMAIN Listed :
            (Qualifies(j) /\ NoErrorBefore(j) /\ \E i \in 1..(j - 1) : MatchedNoGrant(i))
                => result = "True"

\* two matched-but-non-granting policies, then the granting one
C3_Witness ==
    /\ Scanned
    /\ Len(Listed) >= 3
    /\ MatchedNoGrant(1) /\ MatchedNoGrant(2) /\ Qualifies(3)
    /\ result = "True"
    /\ idx = 3

-----------------------------------------------------------------------------
(* C4 *)

\* C4: with the datasets loaded, a user id that is no entry of the directory
\* is denied with the user-not-found message and no policy is examined.
C4_UnknownUserDenied ==
    (Returned /\ DatasetsPresent /\ ~InDirectory(user_id))
        => /\ result = "False"
           /\ log = <<LogEntry("user_not_found", None)>>
           /\ examined = {}

\* the unknown user is listed by an enabled granting policy whose conditions hold
C4_Witness ==
    /\ Returned /\ DatasetsPresent /\ ~InDirectory(user_id)
    /\ \E i \in DOMAIN Listed : Qualifies(i)
    /\ result = "False"

-----------------------------------------------------------------------------
(* C5 *)

LoadFailed == ~policy_file.readable \/ ~user_file.readable \/ ~context_file.readable

\* C5: when a dataset failed to load the call ends in an outcome that is
\* not the value of an ordinary policy decision (neither deny nor grant).
C5_DataUnavailableDistinct ==
    (Returned /\ LoadFailed) => result \notin {"False", "True"}

-----------------------------------------------------------------------------
(* C6 *)

\* C6 as stated: an enabled policy that lists the user and has a malformed
\* time string makes the call end in an error, wherever it stands in the list.
C6_Original ==
    (Scanned /\ \E i \in DOMAIN Listed : Targets(i) /\ MalformedTime(Listed[i]))
        => result = "ValueError"

\* C6 amended: it does so unless a policy standing before it targets the user,
\* matches its conditions and grants (the scan stops there).
C6_MalformedTimeRaises ==
    Scanned =>
        \A i \in DOMAIN Listed :
            (Targets(i) /\ MalformedTime(Listed[i]) /\ \A j \in 1..(i - 1) : ~Qualifies(j))
                => result = "ValueError"

\* the malformed policy was reached after a matched-but-non-granting one
C6_Witness ==
    /\ Scanned
    /\ idx > 1
    /\ idx \in DOMAIN Listed
    /\ Targets(idx) /\ MalformedTime(Listed[idx])
    /\ \E j \in 1..(idx - 1) : MatchedNoGrant(j)
    /\ result = "ValueError"

-----------------------------------------------------------------------------
(* C7 *)

MinuteOf(t) == t \div 60

HasTimeWindow(p) ==
    /\ "conditions" \in DOMAIN p
    /\ "time" \in DOMAIN p["conditions"]
    /\ DOMAIN p["conditions"]["time"] # {}

WindowStart(p) ==
    IF "start_time" \in DOMAIN p["conditions"]["time"]
    THEN p["conditions"]["time"]["start_time"] ELSE <<"0", "0", ":", "0", "0">>

WindowEnd(p) ==
    IF "end_time" \in DOMAIN p["conditions"]["time"]
    THEN p["conditions"]["time"]["end_time"] ELSE <<"2", "3", ":", "5", "9">>

OnlyTimeCondition(p) ==
    /\ HasTimeWindow(p)
    /\ DOMAIN p["conditions"] = {"time"}
    /\ ~MalformedTime(p)

\* C7: a granting policy whose only condition is a well-formed time window
\* grants exactly when the minute of the evaluation instant lies in
\* [start, end], both ends included (so during the whole minute of end).
C7_WindowInclusiveAtMinuteResolution ==
    (Scanned /\ Len(Listed) = 1 /\ Targets(1) /\ OnlyTimeCondition(Listed[1]) /\ GrantsAccess(Listed[1]))
        => (result = "True" <=>
               /\ MinuteOf(Strptime(WindowStart(Listed[1]))) <= MinuteOf(current_time)
               /\ MinuteOf(current_time) <= MinuteOf(Strptime(WindowEnd(Listed[1]))))

-----------------------------------------------------------------------------
(* C8 *)

NoTimeCondition(p) == ~HasTimeWindow(p)

ContextOf == IF "context" \in DOMAIN context THEN context["context"] ELSE <<>>

LocationHolds(p) ==
    \/ "conditions" \notin DOMAIN p
    \/ "location" \notin DOMAIN p["conditions"]
    \/ p["conditions"]["location"] = <<>>
    \/ /\ "location" \in DOMAIN ContextOf
       /\ \E i \in DOMAIN p["conditions"]["location"] :
             p["conditions"]["location"][i] = ContextOf["location"]

DeviceHolds(p) ==
    \/ "conditions" \notin DOMAIN p
    \/ "device_health" \notin DOMAIN p["conditions"]
    \/ p["conditions"]["device_health"] = ""
    \/ /\ "device_health" \in DOMAIN ContextOf
       /\ ContextOf["device_health"] = p["conditions"]["device_health"]

LoggedAsMatched == \E k \in DOMAIN log : log[k]["event"] \in {"granted", "applied_no_grant"}

\* C8: for an enabled policy that lists the user and has no time condition,
\* the conditions match (the policy is logged as granting or as applied
\* without grant) iff the location condition is absent, empty or contains
\* the context's location, and the device_health condition is absent, empty
\* or equal to the context's device_health; the call grants iff they match
\* and the policy's access is "grant".
C8_LocationAndDeviceConditions ==
    (Scanned /\ Len(Listed) = 1 /\ Targets(1) /\ NoTimeCondition(Listed[1]))
        => /\ LoggedAsMatched <=> (LocationHolds(Listed[1]) /\ DeviceHolds(Listed[1]))
           /\ result = "True" <=>
                  (LocationHolds(Listed[1]) /\ DeviceHolds(Listed[1]) /\ GrantsAccess(Listed[1]))

\* a non-empty location condition fails against a context that has no location,
\* while the device_health condition holds
C8_Witness ==
    /\ Scanned /\ Len(Listed) = 1 /\ Targets(1) /\ NoTimeCondition(Listed[1])
    /\ GrantsAccess(Listed[1])
    /\ "location" \in DOMAIN Conditions(Listed[1])
    /\ Conditions(Listed[1])["location"] # <<>>
    /\ "location" \notin DOMAIN ContextOf
    /\ "device_health" \in DOMAIN Conditions(Listed[1])
    /\ Conditions(Listed[1])["device_health"] = "compliant"
    /\ DeviceHolds(Listed[1])
    /\ result = "False"

-----------------------------------------------------------------------------
(* C9 *)

RECURSIVE FirstCallScan(_, _, _)
\* the result of scanning the policies from position i in a fresh call
FirstCallScan(i, uid, now) ==
    IF i > Len(Listed) THEN "False"
    ELSE IF ~(IsEnabled(Listed[i]) /\ ListsUser(Listed[i], uid)) THEN FirstCallScan(i + 1, uid, now)
    ELSE IF MalformedTime(Listed[i]) THEN "ValueError"
    ELSE IF ConditionsMet(Listed[i], context, now) /\ GrantsAccess(Listed[i]) THEN "True"
    ELSE FirstCallScan(i + 1, uid, now)

\* the result of simulate_access(uid) at instant now as the first call on the loaded data
FirstCallResult(uid, now) ==
    IF ~DatasetsPresent \/ ~InDirectory(uid) THEN "False" ELSE FirstCallScan(1, uid, now)

\* C9: every step of every call leaves the files' documents and the loaded
\* policies, users and context unchanged, and a call that returns, returns
\* what the same call gives as the first call on that data at that instant.
C9_NoStateAcrossCalls ==
    [][/\ data' = data
       /\ pc' = "returned" => result' = FirstCallResult(user_id', current_time')]_vars

\* a call that is denied for an unknown user after an earlier call that granted
C9_Witness ==
    /\ Returned
    /\ DatasetsPresent
    /\ access_granted
    /\ ~InDirectory(user_id)
    /\ result = "False"

-----------------------------------------------------------------------------
(* C10 *)

AllTimesWellFormed == \A i \in DOMAIN Listed : ~MalformedTime(Listed[i])

\* C10: when every time string is well-formed, the call grants iff some
\* policy, at whatever position, is enabled, lists the user, has its
\* conditions satisfied and has access "grant".
C10_DecisionIndependentOfOrder ==
    (Scanned /\ AllTimesWellFormed)
        => (result = "True" <=> \E i \in DOMAIN Listed : Qualifies(i))

\* the only qualifying policy stands last, after a matched non-granting one
C10_Witness ==
    /\ Scanned /\ AllTimesWellFormed
    /\ Len(Listed) >= 2
    /\ Qualifies(Len(Listed))
    /\ \A i \in 1..(Len(Listed) - 1) : ~Qualifies(i)
    /\ MatchedNoGrant(1)
    /\ result = "True"

====
